---- MODULE Spec2Model ----
(***************************************************************************)
(* Model of src/graveyard/DEM.h: the ENVI channel-type table               *)
(* (vw_to_envi_channel_type) and the ENVI header writer                    *)
(* (write_ENVI_header).                                                    *)
(*                                                                         *)
(* A double is an integer count of 1e-7 units together with a NaN flag;    *)
(* "%f" rounds it to 1e-6 units.  The header file is a sequence of cells,  *)
(* one cell per header item (a format string with its formatted values).   *)
(* Every call of write_ENVI_header is a process whose steps are the        *)
(* statements of the function between the calls it makes to the outside    *)
(* (fopen, the georeference, the image scan, fclose).                      *)
(***************************************************************************)
EXTENDS Integers, Sequences, FiniteSets, TLC

VARIABLES pc, args, headerFile, buf, pos, loc, file, host, events

vars == <<pc, args, headerFile, buf, pos, loc, file, host, events>>

\* ------------------------------------------------------------- bounds
MaxCols == 3
MaxRows == 2
MaxPlanes == 2
MaxSamples == 3
OldFileLen == 26

Procs == {1, 2}

\* ------------------------------------------------------------ doubles
One == 10 * 1000 * 1000                  \* 1.0 in units of 1e-7

D(v) == [v |-> v, nan |-> FALSE]
NaN == [v |-> 0, nan |-> TRUE]

\* operator< of the sample type: every comparison with a NaN is false
Lt(a, b) == ~a.nan /\ ~b.nan /\ a.v < b.v

Abs(v) == IF v < 0 THEN 0 - v ELSE v
MinI(a, b) == IF a < b THEN a ELSE b
MaxI(a, b) == IF a < b THEN b ELSE a

\* ------------------------------------------------- printf conversions
\* The text a conversion writes: t is the conversion, n the digits (for %f
\* the count of 1e-6 units after rounding), neg the sign, s a string.
Round6(v) == (Abs(v) + 5) \div 10

FmtF(d) ==
  IF d.nan THEN [nan |-> TRUE, t |-> "f", neg |-> FALSE, n |-> 0, s |-> ""]
  ELSE [nan |-> FALSE, t |-> "f", neg |-> d.v < 0, n |-> Round6(d.v), s |-> ""]

FmtD(i) == [nan |-> FALSE, t |-> "d", neg |-> i < 0, n |-> Abs(i), s |-> ""]

FmtS(str) == [nan |-> FALSE, t |-> "s", neg |-> FALSE, n |-> 0, s |-> str]

Cell(f, v) == [v |-> v, f |-> f]

\* ------------------------------------------------ channel-type table
SpecializedKinds ==
  {"uint8", "int16", "int32", "float32", "float64", "uint16", "uint32"}

\* a channel type of the library that the table has no specialization for
Kinds == SpecializedKinds \cup {"int8"}

TableMutant(k) ==
  CASE k = "uint8" -> 1
    [] k = "int16" -> 2
    [] k = "int32" -> 3
    [] k = "float32" -> 4
    [] k = "float64" -> 5
    [] k = "uint16" -> 2
    [] k = "uint32" -> 3

vw_to_envi_channel_type(k) ==
  CASE k = "uint8" -> 1
    [] k = "int16" -> 2
    [] k = "int32" -> 3
    [] k = "float32" -> 4
    [] k = "float64" -> 5
    [] k = "uint16" -> 12
    [] k = "uint32" -> 13

AlwaysInstantiates(k) == TRUE

\* write_ENVI_header<ViewT> compiles only when the channel type of ViewT has
\* a specialization with value(); the primary template has no value().
Instantiates(k) == k \in SpecializedKinds

\* ------------------------------------------------------------- images
UnsignedKinds == {"uint8", "uint16", "uint32"}
FloatKinds == {"float32", "float64"}

UnsignedSamples == {D(0), D(7 * One)}
SignedSamples == {D(-3 * One), D(7 * One)}
FloatSamples == {NaN, D(-26), D(4)}

SampleValues(k) ==
  IF k \in UnsignedKinds THEN UnsignedSamples
  ELSE IF k \in FloatKinds THEN FloatSamples
  ELSE SignedSamples

Shapes ==
  {s \in (0..MaxCols) \X (0..MaxRows) \X (0..MaxPlanes) :
     s[1] * s[2] * s[3] <= MaxSamples}

Images(k) ==
  UNION {{[cols |-> s[1], rows |-> s[2], planes |-> s[3], data |-> d] :
            d \in [1..(s[1] * s[2] * s[3]) -> SampleValues(k)]} : s \in Shapes}

\* std::min_element / std::max_element over [begin, end): positions are
\* 1..Len(data), end is Len(data)+1.
RECURSIVE MinScan(_, _, _)
MinScan(data, i, smallest) ==
  IF i > Len(data) THEN smallest
  ELSE MinScan(data, i + 1, IF Lt(data[i], data[smallest]) THEN i ELSE smallest)

RECURSIVE MaxScan(_, _, _)
MaxScan(data, i, largest) ==
  IF i > Len(data) THEN largest
  ELSE MaxScan(data, i + 1, IF Lt(data[largest], data[i]) THEN i ELSE largest)

MinFirstTwo(data) == IF Len(data) >= 2 /\ Lt(data[2], data[1]) THEN 2 ELSE 1

min_element(data) == MinScan(data, 2, 1)

max_element(data) == MaxScan(data, 2, 1)

\* what *(end) can read on an empty image
GarbageValues == {NaN, D(123)}

\* ------------------------------------------------------ georeferences
\* A georeference: its text (operator<<, one string per line), its affine
\* transform and its datum name.
GeoRefMoon ==
  [str |-> <<"-- Geospatial Reference Object --">>,
   T |-> << <<5 * 1000 * 1000, 0, 10 * One>>,
            <<0, 0 - (5 * 1000 * 1000), 215 * 1000 * 1000>>,
            <<0, 0, One>> >>,
   datum |-> "D_MOON"]

GeoRefEarth ==
  [str |-> <<"-- Geospatial Reference Object --", "Transform">>,
   T |-> << <<12, 0, 4 - (3 * One)>>,
            <<0, 0 - 26, 4>>,
            <<0, 0, One>> >>,
   datum |-> "WGS84"]

GeoRefs == {GeoRefMoon, GeoRefEarth}

\* georef.bounding_box(cols, rows): the box of the points of the pixel
\* region [0,cols] x [0,rows] under the transform
bounding_box(g, width, height) ==
  LET x0 == g.T[1][3]
      x1 == g.T[1][3] + g.T[1][1] * width
      y0 == g.T[2][3]
      y1 == g.T[2][3] + g.T[2][2] * height
  IN [min |-> [x |-> D(MinI(x0, x1)), y |-> D(MinI(y0, y1))],
      max |-> [x |-> D(MaxI(x0, x1)), y |-> D(MaxI(y0, y1))]]

DefaultZs == {D(0), D(0 - (99 * One))}

\* --------------------------------------------------------- arguments
ArgsOf(kinds, georefs, zs) ==
  UNION {{[kind |-> k, image |-> im, georef |-> g, default_z_value |-> z] :
            im \in Images(k), g \in georefs, z \in zs} : k \in kinds}

AllArgs == ArgsOf(Kinds, GeoRefs, DefaultZs)

\* two callers with different inputs, each with a one-sample image
FirstCallerArgs ==
  {a \in ArgsOf({"float32"}, {GeoRefMoon}, {D(0)}) : Len(a.image.data) = 1}

SecondCallerArgs ==
  {a \in ArgsOf({"int16"}, {GeoRefEarth}, {D(0 - (99 * One))}) : Len(a.image.data) = 1}

ConcArgs(p) == IF p = 1 THEN FirstCallerArgs ELSE SecondCallerArgs

NoArgs ==
  [kind |-> "", image |-> [cols |-> 0, rows |-> 0, planes |-> 0, data |-> <<>>],
   georef |-> [str |-> <<>>, T |-> <<>>, datum |-> ""],
   default_z_value |-> D(0)]

NoBox == [min |-> [x |-> D(0), y |-> D(0)], max |-> [x |-> D(0), y |-> D(0)]]

NoLoc == [bounding_box |-> NoBox, temp |-> <<>>, min_value |-> D(0), max_value |-> D(0)]

\* ------------------------------------------------------------ the file
Hole == Cell("\\0", <<>>)
OldCell == Cell("old", <<>>)
OldContent == [i \in 1..OldFileLen |-> OldCell]

NoFile == [exists |-> FALSE, content |-> <<>>]

KeepContent(content) == content

\* fopen(..., "w") truncates the file to length zero
Truncate(content) == <<>>

WriteAppend(content, at, cells) == content \o cells

\* write(2) of cells at offset `at`; a gap beyond the end reads as zeros
WriteAt(content, at, cells) ==
  LET n == MaxI(Len(content), at + Len(cells))
  IN [i \in 1..n |->
        IF i > at /\ i <= at + Len(cells) THEN cells[i - at]
        ELSE IF i <= Len(content) THEN content[i]
        ELSE Hole]

\* ------------------------------------------------------ header cells
\* lines 48-63
StaticCells ==
  << Cell("ENVI", <<>>),
     Cell("description = {", <<>>),
     Cell("-- Digital Elevation Map ... Projection Information:", <<>>) >>

\* line 67, one cell per line of the georeference's text
StrCells(temp) == [i \in 1..Len(temp) |-> Cell("   %s", <<FmtS(temp[i])>>)]

\* lines 73-86
BodyCells(a, l) ==
  << Cell("Bounding box:", <<>>),
     Cell("Minimum X (left)    = %f", <<FmtF(l.bounding_box.min.x)>>),
     Cell("Minimum Y (top)     = %f", <<FmtF(l.bounding_box.min.y)>>),
     Cell("Maximum X (right)   = %f", <<FmtF(l.bounding_box.max.x)>>),
     Cell("Maximum Y (bottom)  = %f", <<FmtF(l.bounding_box.max.y)>>),
     Cell("Minimum Z           = %f", <<FmtF(l.min_value)>>),
     Cell("Maximum Z           = %f", <<FmtF(l.max_value)>>),
     Cell("Default Z           = %f", <<FmtF(a.default_z_value)>>),
     Cell("}", <<>>),
     Cell("samples = %d", <<FmtD(a.image.cols)>>),
     Cell("lines   = %d", <<FmtD(a.image.rows)>>),
     Cell("bands   = %d", <<FmtD(a.image.planes)>>),
     Cell("header offset = 0", <<>>) >>

MapInfoLabel ==
  "map info = { Geographic Lat/Lon, 1.5, 1.5, %f, %f, %f, %f, %s, units=Degrees}"

MapInfoMinY(a, l) ==
  Cell(MapInfoLabel,
       << FmtF(l.bounding_box.min.x), FmtF(l.bounding_box.min.y),
          FmtF(D(a.georef.T[1][1])), FmtF(D(a.georef.T[2][2])),
          FmtS(a.georef.datum) >>)

\* lines 88-91
MapInfoCell(a, l) ==
  LET x_pixel_scaling == D(a.georef.T[1][1])
      y_pixel_scaling == D(a.georef.T[2][2])
  IN Cell(MapInfoLabel,
          << FmtF(l.bounding_box.min.x), FmtF(l.bounding_box.max.y),
             FmtF(x_pixel_scaling), FmtF(y_pixel_scaling),
             FmtS(a.georef.datum) >>)

\* the two bytes of a short holding x, bytes[0] first
Store16(h, x) ==
  IF h = "little" THEN << x % 256, x \div 256 >> ELSE << x \div 256, x % 256 >>

ProbeFirstByte(h) ==
  LET bytes == Store16(h, 1) IN IF 1 = bytes[1] THEN 1 ELSE 0

\* lines 104-108: char(number) == bytes[1], with number = 1
byte_order(h) ==
  LET bytes == Store16(h, 1) IN IF 1 = bytes[2] THEN 1 ELSE 0

\* lines 90-110
TailCells(a, l, h) ==
  << MapInfoCell(a, l),
     Cell("file type = ENVI Standard", <<>>),
     Cell("data type = %d", <<FmtD(vw_to_envi_channel_type(a.kind))>>),
     Cell("interleave = bsq", <<>>),
     Cell("byte order = %d", <<FmtD(byte_order(h))>>),
     Cell("", <<>>) >>

\* ------------------------------------------------------------ actions
Init ==
  /\ pc = [p \in Procs |-> "idle"]
  /\ args = [p \in Procs |-> NoArgs]
  /\ headerFile = [p \in Procs |-> "none"]
  /\ buf = [p \in Procs |-> <<>>]
  /\ pos = [p \in Procs |-> 0]
  /\ loc = [p \in Procs |-> NoLoc]
  /\ file \in {NoFile, [exists |-> TRUE, content |-> OldContent]}
  /\ host \in {"little", "big"}
  /\ events = <<>>

\* The call site: the template is instantiated for the image's channel type.
Call(p, A) ==
  /\ pc[p] = "idle"
  /\ \E a \in A :
       /\ args' = [args EXCEPT ![p] = a]
       /\ pc' = [pc EXCEPT ![p] = IF Instantiates(a.kind) THEN "open" ELSE "ill_formed"]
  /\ UNCHANGED <<headerFile, buf, pos, loc, file, host, events>>

\* line 46: fopen(header_name, "w"); the result is not tested
Open(p) ==
  /\ pc[p] = "open"
  /\ \/ /\ headerFile' = [headerFile EXCEPT ![p] = "open"]
        /\ file' = [exists |-> TRUE, content |-> Truncate(file.content)]
        /\ pos' = [pos EXCEPT ![p] = 0]
        /\ events' = Append(events, <<"open", p>>)
     \/ /\ headerFile' = [headerFile EXCEPT ![p] = "NULL"]
        /\ UNCHANGED <<file, pos, events>>
  /\ pc' = [pc EXCEPT ![p] = "static"]
  /\ UNCHANGED <<args, buf, loc, host>>

\* fprintf(headerFile, ...): the cells go to the stream's buffer; on a null
\* stream the call is undefined, here the outcome where nothing is written
\* (the other outcome is Crash)
fprintf(p, cells, next) ==
  /\ buf' = [buf EXCEPT ![p] = IF headerFile[p] = "NULL" THEN @ ELSE @ \o cells]
  /\ pc' = [pc EXCEPT ![p] = next]

\* lines 48-63
Static(p) ==
  /\ pc[p] = "static"
  /\ fprintf(p, StaticCells, "str")
  /\ UNCHANGED <<args, headerFile, pos, loc, file, host, events>>

\* lines 65-67
Str(p) ==
  /\ pc[p] = "str"
  /\ loc' = [loc EXCEPT ![p].temp = args[p].georef.str]
  /\ fprintf(p, StrCells(args[p].georef.str), "bbox")
  /\ UNCHANGED <<args, headerFile, pos, file, host, events>>

\* line 69
BBox(p) ==
  /\ pc[p] = "bbox"
  /\ loc' = [loc EXCEPT ![p].bounding_box =
               bounding_box(args[p].georef, args[p].image.cols, args[p].image.rows)]
  /\ pc' = [pc EXCEPT ![p] = "scan"]
  /\ UNCHANGED <<args, headerFile, buf, pos, file, host, events>>

\* lines 70-71: on an empty image both scans return end and *(end) is read
Scan(p) ==
  /\ pc[p] = "scan"
  /\ LET data == args[p].image.data IN
       IF Len(data) = 0
       THEN \E g1 \in GarbageValues, g2 \in GarbageValues :
              loc' = [loc EXCEPT ![p].min_value = g1, ![p].max_value = g2]
       ELSE loc' = [loc EXCEPT ![p].min_value = data[min_element(data)],
                               ![p].max_value = data[max_element(data)]]
  /\ pc' = [pc EXCEPT ![p] = "body"]
  /\ UNCHANGED <<args, headerFile, buf, pos, file, host, events>>

\* lines 73-86
Body(p) ==
  /\ pc[p] = "body"
  /\ fprintf(p, BodyCells(args[p], loc[p]), "trailer")
  /\ UNCHANGED <<args, headerFile, pos, loc, file, host, events>>

\* lines 88-110
Trailer(p) ==
  /\ pc[p] = "trailer"
  /\ fprintf(p, TailCells(args[p], loc[p], host), "close")
  /\ UNCHANGED <<args, headerFile, pos, loc, file, host, events>>

\* The stream writes its buffer out when the buffer fills, which can be
\* between any two of the steps below.
Flush(p) ==
  /\ pc[p] \in {"str", "bbox", "scan", "body", "trailer", "close"}
  /\ headerFile[p] = "open"
  /\ buf[p] # <<>>
  /\ file' = [file EXCEPT !.content = WriteAt(@, pos[p], buf[p])]
  /\ pos' = [pos EXCEPT ![p] = @ + Len(buf[p])]
  /\ buf' = [buf EXCEPT ![p] = <<>>]
  /\ UNCHANGED <<pc, args, headerFile, loc, host, events>>

\* line 111: fclose writes the buffer out and releases the stream;
\* fclose of a null stream is undefined, here the outcome where it returns
Close(p) ==
  /\ pc[p] = "close"
  /\ IF headerFile[p] = "NULL"
     THEN UNCHANGED <<headerFile, file, pos, buf, events>>
     ELSE /\ file' = [file EXCEPT !.content = WriteAt(@, pos[p], buf[p])]
          /\ pos' = [pos EXCEPT ![p] = @ + Len(buf[p])]
          /\ buf' = [buf EXCEPT ![p] = <<>>]
          /\ headerFile' = [headerFile EXCEPT ![p] = "closed"]
          /\ events' = Append(events, <<"close", p>>)
  /\ pc' = [pc EXCEPT ![p] = "done"]
  /\ UNCHANGED <<args, loc, host>>

\* An exception leaves the function from a call into the georeference or
\* the image (lines 66, 69, 70-71, 88-91); nothing between fopen and fclose
\* catches it and headerFile is a plain FILE*.
Throw(p) ==
  /\ pc[p] \in {"str", "bbox", "scan", "trailer"}
  /\ pc' = [pc EXCEPT ![p] = "threw"]
  /\ UNCHANGED <<args, headerFile, buf, pos, loc, file, host, events>>

\* The undefined operations can end the process: a write or close on a
\* null stream (lines 48-111), reading *(end) of an empty image (70-71).
Crash(p) ==
  /\ \/ /\ headerFile[p] = "NULL"
        /\ pc[p] \in {"static", "str", "body", "trailer", "close"}
     \/ /\ pc[p] = "scan"
        /\ Len(args[p].image.data) = 0
  /\ pc' = [pc EXCEPT ![p] = "crashed"]
  /\ UNCHANGED <<args, headerFile, buf, pos, loc, file, host, events>>

Step(p) ==
  \/ Open(p)
  \/ Static(p)
  \/ Str(p)
  \/ BBox(p)
  \/ Scan(p)
  \/ Body(p)
  \/ Trailer(p)
  \/ Flush(p)
  \/ Close(p)
  \/ Throw(p)
  \/ Crash(p)

\* one call
Next == Call(1, AllArgs) \/ Step(1)

Spec == Init /\ [][Next]_vars

\* two calls on the same path
NextConc == \E p \in Procs : Call(p, ConcArgs(p)) \/ Step(p)

SpecConc == Init /\ [][NextConc]_vars

\* ------------------------------------------------------------- claims
\* the values of the cells of `content` written with format `label`
FieldValues(content, label) ==
  {content[i].v : i \in {j \in 1..Len(content) : content[j].f = label}}

Labels(content) == [i \in 1..Len(content) |-> content[i].f]

\* the call returned after opening and closing the destination
Returned(p) == pc[p] = "done" /\ headerFile[p] = "closed"

NumSamples(p) == Len(args[p].image.data)

\* everything the call passes to fprintf, in order
HeaderOf(p) ==
  StaticCells \o StrCells(args[p].georef.str) \o BodyCells(args[p], loc[p])
    \o TailCells(args[p], loc[p], host)

\* C1: the resolver returns 1, 2, 3, 4, 5, 12, 13 for uint8, int16, int32,
\* float32, float64, uint16, uint32, and the `data type` field of a written
\* header is that code for the image's channel kind.
C1_ChannelCodes ==
  /\ vw_to_envi_channel_type("uint8") = 1
  /\ vw_to_envi_channel_type("int16") = 2
  /\ vw_to_envi_channel_type("int32") = 3
  /\ vw_to_envi_channel_type("float32") = 4
  /\ vw_to_envi_channel_type("float64") = 5
  /\ vw_to_envi_channel_type("uint16") = 12
  /\ vw_to_envi_channel_type("uint32") = 13
  /\ Returned(1) =>
       FieldValues(file.content, "data type = %d") =
         { << FmtD(CASE args[1].kind = "uint8" -> 1
                     [] args[1].kind = "int16" -> 2
                     [] args[1].kind = "int32" -> 3
                     [] args[1].kind = "float32" -> 4
                     [] args[1].kind = "float64" -> 5
                     [] args[1].kind = "uint16" -> 12
                     [] args[1].kind = "uint32" -> 13) >> }

C1_Witness ==
  /\ Returned(1)
  /\ args[1].kind = "uint16"
  /\ FieldValues(file.content, "data type = %d") = { <<FmtD(12)>> }

\* C2: a call for a channel kind outside the seven of the table is rejected
\* before the destination is opened: the file is as it was (absent, or with
\* its old content), nothing is buffered and no stream exists.
C2_UnsupportedKindWritesNothing ==
  \A p \in Procs :
    (pc[p] # "idle" /\ args[p].kind \notin
       {"uint8", "int16", "int32", "float32", "float64", "uint16", "uint32"})
    => /\ pc[p] = "ill_formed"
       /\ headerFile[p] = "none"
       /\ buf[p] = <<>>
       /\ file \in {NoFile, [exists |-> TRUE, content |-> OldContent]}
       /\ FieldValues(file.content, "data type = %d") = {}

C2_Witness ==
  /\ pc[1] = "ill_formed"
  /\ args[1].kind = "int8"
  /\ file = NoFile

\* C3 (as claimed): a call with an image of zero samples, its destination
\* opened, never gets past the min/max scan with a value: it writes no
\* Minimum Z / Maximum Z line and ends neither by returning nor by crashing.
C3_EmptyImageFails ==
  \A p \in Procs :
    (pc[p] # "idle" /\ NumSamples(p) = 0 /\ headerFile[p] # "NULL")
    => /\ pc[p] \notin {"body", "trailer", "close", "done", "crashed"}
       /\ FieldValues(buf[p], "Minimum Z           = %f") = {}
       /\ FieldValues(file.content, "Minimum Z           = %f") = {}

\* C4 (as claimed): after an open that yields no handle the call does nothing
\* but report the error: it is at the statement after fopen or has left with
\* an error, and never past a write on the missing handle.
C4_OpenFailureSurfaced ==
  \A p \in Procs :
    headerFile[p] = "NULL" => pc[p] \in {"static", "threw"}

\* C5 (as claimed): no way out of the call, by return or by exception,
\* leaves the stream open.
C5_HandleClosedOnEveryPath ==
  \A p \in Procs :
    pc[p] \in {"done", "threw"} => headerFile[p] # "open"

\* C6: two calls with different inputs on the same path.
BothReturned == Returned(1) /\ Returned(2)

LastCloser == events[Len(events)][2]

\* one call closed before the other opened
NotOverlapped == Len(events) = 4 /\ events[2][1] = "close"

HeaderOrder(n) ==
  << "ENVI", "description = {",
     "-- Digital Elevation Map ... Projection Information:" >>
  \o [i \in 1..n |-> "   %s"]
  \o << "Bounding box:",
        "Minimum X (left)    = %f", "Minimum Y (top)     = %f",
        "Maximum X (right)   = %f", "Maximum Y (bottom)  = %f",
        "Minimum Z           = %f", "Maximum Z           = %f",
        "Default Z           = %f", "}",
        "samples = %d", "lines   = %d", "bands   = %d", "header offset = 0",
        "map info = { Geographic Lat/Lon, 1.5, 1.5, %f, %f, %f, %f, %s, units=Degrees}",
        "file type = ENVI Standard", "data type = %d", "interleave = bsq",
        "byte order = %d", "" >>

\* C7: the open leaves the file empty whatever it held, and after a call
\* that returned the file holds exactly the header items in the fixed order,
\* none omitted and nothing of the old content left, whatever the image and
\* the georeference.
C7_FixedOrder ==
  /\ (pc[1] = "static" /\ headerFile[1] = "open") =>
       file = [exists |-> TRUE, content |-> <<>>]
  /\ Returned(1) =>
       /\ file.exists
       /\ Labels(file.content) = HeaderOrder(Len(args[1].georef.str))

C7_Witness ==
  /\ Returned(1)
  /\ Len(args[1].georef.str) = 2
  /\ NumSamples(1) = 2
  /\ Len(file.content) = 24
  /\ Labels(file.content) = HeaderOrder(2)

\* x is a sample that no sample with a value is below (above)
IsLeast(x, data) ==
  /\ \E i \in 1..Len(data) : data[i] = x
  /\ \A i \in 1..Len(data) : data[i].nan \/ (~x.nan /\ x.v <= data[i].v)

IsGreatest(x, data) ==
  /\ \E i \in 1..Len(data) : data[i] = x
  /\ \A i \in 1..Len(data) : data[i].nan \/ (~x.nan /\ data[i].v <= x.v)

DimsWritten ==
  /\ FieldValues(file.content, "samples = %d") = { <<FmtD(args[1].image.cols)>> }
  /\ FieldValues(file.content, "lines   = %d") = { <<FmtD(args[1].image.rows)>> }
  /\ FieldValues(file.content, "bands   = %d") = { <<FmtD(args[1].image.planes)>> }

MinMaxWritten ==
  \E lo \in SampleValues(args[1].kind), hi \in SampleValues(args[1].kind) :
    /\ IsLeast(lo, args[1].image.data)
    /\ IsGreatest(hi, args[1].image.data)
    /\ FieldValues(file.content, "Minimum Z           = %f") = { <<FmtF(lo)>> }
    /\ FieldValues(file.content, "Maximum Z           = %f") = { <<FmtF(hi)>> }

\* C8 (as claimed): for every non-empty image the header has samples, lines,
\* bands = cols, rows, planes and Minimum Z / Maximum Z = the least and the
\* greatest sample, as "%f" prints them.
C8_MinMaxOfEveryImage ==
  (Returned(1) /\ NumSamples(1) > 0) => (DimsWritten /\ MinMaxWritten)

\* C8 (amended): the same for every non-empty image whose first sample is not
\* a NaN, least and greatest being taken over the samples that are not NaN;
\* when the first sample is a NaN both fields are the NaN.
C8_Amended ==
  (Returned(1) /\ NumSamples(1) > 0) =>
    /\ DimsWritten
    /\ ~args[1].image.data[1].nan => MinMaxWritten
    /\ args[1].image.data[1].nan =>
         /\ FieldValues(file.content, "Minimum Z           = %f") = { <<FmtF(NaN)>> }
         /\ FieldValues(file.content, "Maximum Z           = %f") = { <<FmtF(NaN)>> }

C8_Witness ==
  /\ Returned(1)
  /\ NumSamples(1) = 3
  /\ args[1].image.data = << D(4), NaN, D(-26) >>
  /\ FieldValues(file.content, "Minimum Z           = %f") = { <<FmtF(D(-26))>> }
  /\ FieldValues(file.content, "Maximum Z           = %f") = { <<FmtF(D(4))>> }

\* C9: the map info line carries min X and max Y of the bounding box asked
\* for (cols, rows), then the transform's (0,0) and (1,1) coefficients, then
\* the datum name, between the fixed label with 1.5, 1.5 and units=Degrees.
C9_MapInfo ==
  Returned(1) =>
    LET bb == bounding_box(args[1].georef, args[1].image.cols, args[1].image.rows)
    IN FieldValues(file.content,
         "map info = { Geographic Lat/Lon, 1.5, 1.5, %f, %f, %f, %f, %s, units=Degrees}")
       = { << FmtF(bb.min.x), FmtF(bb.max.y),
              FmtF(D(args[1].georef.T[1][1])), FmtF(D(args[1].georef.T[2][2])),
              FmtS(args[1].georef.datum) >> }

C9_Witness ==
  /\ Returned(1)
  /\ args[1].georef = GeoRefMoon
  /\ args[1].image.cols = 2
  /\ args[1].image.rows = 1
  /\ FieldValues(file.content, MapInfoLabel)
       = { << FmtF(D(10 * One)), FmtF(D(215 * 1000 * 1000)),
              FmtF(D(5 * 1000 * 1000)), FmtF(D(0 - (5 * 1000 * 1000))),
              FmtS("D_MOON") >> }

\* C10: the byte order field is 0 on a host that stores the 16-bit value 1
\* low byte first and 1 on a host that stores it high byte first.
C10_ByteOrder ==
  Returned(1) =>
    /\ Store16(host, 1) = <<1, 0>> =>
         FieldValues(file.content, "byte order = %d") = { <<FmtD(0)>> }
    /\ Store16(host, 1) = <<0, 1>> =>
         FieldValues(file.content, "byte order = %d") = { <<FmtD(1)>> }
    /\ Store16(host, 1) \in { <<1, 0>>, <<0, 1>> }

C10_Witness ==
  /\ Returned(1)
  /\ host = "big"
  /\ FieldValues(file.content, "byte order = %d") = { <<FmtD(1)>> }

====
